---- MODULE Spec2Model ----
(***************************************************************************)
(* Model of packages/relayer/src/relayer.ts: class Relayer.                *)
(*                                                                         *)
(* Relayer.relay is an async function with two await points                *)
(* (keyManager.sign at line 125, provider.relay at line 150).  Each relay  *)
(* call is therefore a small process: the synchronous prefix up to the     *)
(* sign call, the continuation after the signature resolves up to the      *)
(* provider call, and the continuation after the provider resolves.        *)
(* Several calls may be in flight at once and interleave at the awaits.    *)
(*                                                                         *)
(* Optional values (undefined / null) are sequences of length 0 or 1.      *)
(* JSON.stringify(obj) is the sequence of <<key, value>> pairs in the      *)
(* insertion order of the object literal; sha3_256(...).hex() is modelled  *)
(* as a collision-free tagged wrapper of the hashed string.                *)
(***************************************************************************)
EXTENDS Integers, Sequences, FiniteSets, TLC

\* Number of relay calls that are followed (call ids 1..MaxCalls).
MaxCalls == 2

\* Math.random() * 99999999999999 floored (line 115), cut down to
\* 0..EntropyBound-1.
EntropyBound == 2

\* Math.floor(Math.random() * 100) (line 200) ranges over 0..RandomRange-1.
RandomRange == 100

Calls == 1..MaxCalls

---------------------------------------------------------------------------
(* Values *)

Undefined == <<>>
Some(x) == <<x>>

NoKeyManager == "undefined"
KeyManager == "keyManager"
KeyManagers == {NoKeyManager, KeyManager}

Node(pk, url) == [publicKey |-> pk, serviceUrl |-> url]
NodeA == Node("pkA", "https://a")
NodeB == Node("pkB", "https://b")
NodeC == Node("pkC", "https://c")
\* A node of no session, and a node object that carries the public key of
\* NodeB with another service URL.
NodeX == Node("pkX", "https://x")
NodeB2 == Node("pkB", "https://x")

SessionOf(nodes) ==
    [nodes |-> nodes,
     header |-> [applicationPubKey |-> "app", chain |-> "0021",
                 sessionBlockHeight |-> 12]]

Sessions == {SessionOf(<<>>), SessionOf(<<NodeB>>),
             SessionOf(<<NodeA, NodeB, NodeC>>)}

\* The `node` argument of relay: absent, or one of the node objects.
NodeArgs == {Undefined, Some(NodeB), Some(NodeX), Some(NodeB2)}

DataArgs == {"d1"}

Blockchain == "0021"

PocketAAT ==
    [version |-> "0.0.1", applicationPublicKey |-> "app",
     clientPublicKey |-> "client", applicationSignature |-> "appsig"]

---------------------------------------------------------------------------
(* x.toString() and Number(str) on non-negative integers *)

RECURSIVE toString(_)
toString(n) == IF n < 10 THEN <<n>> ELSE Append(toString(n \div 10), n % 10)

RECURSIVE Number(_)
Number(s) ==
    IF Len(s) = 0 THEN 0
    ELSE 10 * Number(SubSeq(s, 1, Len(s) - 1)) + s[Len(s)]

---------------------------------------------------------------------------
(* Hashing *)

JSONstringify(pairs) == pairs
Sha3(str) == <<"sha3_256", str>>
Preimage(digest) == digest[2]
Field(json, key) == json[CHOOSE i \in 1..Len(json) : json[i][1] = key][2]

RelayPayload(data, method, path, headers) ==
    <<<<"data", data>>, <<"method", method>>, <<"path", path>>,
      <<"headers", headers>>>>

RelayMeta(session) ==
    <<<<"block_height", Number(toString(session.header.sessionBlockHeight))>>>>

RequestHash(payload, meta) == <<<<"payload", payload>>, <<"meta", meta>>>>

hashRequest(requestHash) == Sha3(JSONstringify(requestHash))

hashAAT(aat) ==
    Sha3(JSONstringify(<<<<"version", aat.version>>,
                         <<"app_pub_key", aat.applicationPublicKey>>,
                         <<"client_pub_key", aat.clientPublicKey>>,
                         <<"signature", "">>>>))

generateProofBytes(entropy, sessionBlockHeight, servicerPublicKey, blockchain, pocketAAT, requestHash) ==
    Sha3(JSONstringify(
        <<<<"entropy", Number(toString(entropy))>>,
          <<"session_block_height", Number(toString(sessionBlockHeight))>>,
          <<"servicer_pub_key", servicerPublicKey>>,
          <<"blockchain", blockchain>>,
          <<"signature", "">>,
          <<"token", hashAAT(pocketAAT)>>,
          <<"request_hash", hashRequest(requestHash)>>>>))

---------------------------------------------------------------------------
(* Node selection and membership *)

\* Math.floor(Math.random() * 100) is one of 0..RandomRange-1.
RandomDraws == 0..(RandomRange - 1)

\* Variant: an empty session yields a placeholder node instead of undefined.
getRandomSessionNodePlaceholder(session, r) ==
    LET nodesInSession == Len(session.nodes) IN
    IF nodesInSession = 0 THEN Some(Node("", ""))
    ELSE Some(session.nodes[(r % nodesInSession) + 1])

\* r is the value of Math.floor(Math.random() * 100).  With no nodes the
\* index is r % 0 = NaN and session.nodes[NaN] is undefined.
getRandomSessionNode(session, r) ==
    LET nodesInSession == Len(session.nodes) IN
    IF nodesInSession = 0 THEN Undefined
    ELSE Some(session.nodes[(r % nodesInSession) + 1])

\* Every value getRandomSessionNode(session) can return.
RandomSessionNodes(session) ==
    {getRandomSessionNode(session, r) : r \in RandomDraws}

\* Variant: the membership test accepts every node.
isNodeInSessionAny(session, node) == TRUE

isNodeInSession(session, node) ==
    \E i \in 1..Len(session.nodes) : session.nodes[i].publicKey = node.publicKey

\* Variant: the signer check never fires.
MissingSignerNever(keyManager) == FALSE

\* `!keyManager` (lines 83 and 179) and `!serviceNode` (line 89).
MissingSigner(keyManager) == keyManager = NoKeyManager
NoServiceNode(serviceNode) == serviceNode = Undefined

\* Variant: the wrong field of the node is taken.
ServicerPubKeyFromUrl(serviceNode) == serviceNode.serviceUrl

ServicerPubKey(serviceNode) == serviceNode.publicKey

---------------------------------------------------------------------------
(* Collaborators *)

\* keyManager.sign(bytes): an opaque signature over the bytes handed to it.
Sign(keyManager, bytes) == [signer |-> keyManager, over |-> bytes]

\* What provider.relay may resolve to: a relay response, or a response in
\* which the node reports an error.
RawResponses == {"response", "nodeError"}

validateRelayResponse(raw) ==
    IF raw = "nodeError" THEN [ok |-> FALSE, value |-> "RelayError"]
    ELSE [ok |-> TRUE, value |-> raw]

---------------------------------------------------------------------------
(* Proof and request assembly, lines 127-148 *)

\* Variant: the assembled proof carries another entropy than the signed one.
RelayProofOtherEntropy(entropy, session, servicerPubKey, blockchain, pocketAAT, signedProofBytes, requestHash) ==
    [entropy |-> Number(toString(entropy + 1)),
     session_block_height |-> Number(toString(session.header.sessionBlockHeight)),
     servicer_pub_key |-> servicerPubKey,
     blockchain |-> blockchain,
     aat |-> [version |-> pocketAAT.version,
              app_pub_key |-> pocketAAT.applicationPublicKey,
              client_pub_key |-> pocketAAT.clientPublicKey,
              signature |-> pocketAAT.applicationSignature],
     signature |-> signedProofBytes,
     request_hash |-> hashRequest(requestHash)]

RelayProof(entropy, session, servicerPubKey, blockchain, pocketAAT, signedProofBytes, requestHash) ==
    [entropy |-> Number(toString(entropy)),
     session_block_height |-> Number(toString(session.header.sessionBlockHeight)),
     servicer_pub_key |-> servicerPubKey,
     blockchain |-> blockchain,
     aat |-> [version |-> pocketAAT.version,
              app_pub_key |-> pocketAAT.applicationPublicKey,
              client_pub_key |-> pocketAAT.clientPublicKey,
              signature |-> pocketAAT.applicationSignature],
     signature |-> signedProofBytes,
     request_hash |-> hashRequest(requestHash)]

\* Variant: the request carries a meta other than the hashed one.
RelayRequestOtherMeta(relayPayload, relayMeta, relayProof) ==
    [payload |-> relayPayload, meta |-> <<<<"block_height", 0>>>>,
     proof |-> relayProof]

RelayRequest(relayPayload, relayMeta, relayProof) ==
    [payload |-> relayPayload, meta |-> relayMeta, proof |-> relayProof]

\* serviceNode.serviceUrl.toString(), line 152.
ServiceUrl(serviceNode) == serviceNode.serviceUrl

---------------------------------------------------------------------------
(* State *)

VARIABLES
    session,          \* the Session value the relay calls are given
    thisKeyManager,   \* this.keyManager of the Relayer instance
    call              \* call id -> the state of that relay call

vars == <<session, thisKeyManager, call>>

Idle ==
    [pc |-> "idle", keyManager |-> NoKeyManager, node |-> Undefined,
     data |-> "", serviceNode |-> Undefined, requestHash |-> <<>>,
     entropy |-> 0, signedProofBytes |-> Undefined, error |-> "",
     thrownBy |-> "", signed |-> <<>>,
     sent |-> <<>>, result |-> "", trace |-> <<>>]

Init ==
    /\ session \in Sessions
    /\ thisKeyManager \in KeyManagers
    /\ call = [c \in Calls |-> Idle]

\* A call that throws: the promise rejects with `err`, raised by `site`.
Throw(c, rec, err, site) ==
    call' = [call EXCEPT ![c] =
               [rec EXCEPT !.pc = "failed", !.error = err, !.thrownBy = site]]

\* Call ids number the calls in the order they are made.
CanStart(c) ==
    /\ call[c].pc = "idle"
    /\ \A d \in Calls : d < c => call[d].pc # "idle"

\* Static relay, lines 83-125: from entry to the call of keyManager.sign.
StaticRelay(c, keyManager, node, data) ==
    LET rec0 == [Idle EXCEPT !.keyManager = keyManager, !.node = node,
                             !.data = data] IN
    IF MissingSigner(keyManager)
    THEN Throw(c, rec0, "You need a signer to send a relay", "Relayer.relay")
    ELSE \E serviceNode \in
                (IF node # Undefined THEN {node} ELSE RandomSessionNodes(session)) :
         LET rec1 == [rec0 EXCEPT
                        !.serviceNode = serviceNode,
                        !.trace = IF node # Undefined THEN <<>>
                                  ELSE <<"getRandomSessionNode">>]
         IN
         IF NoServiceNode(serviceNode)
         THEN Throw(c, rec1, "Couldn't find a service node.", "Relayer.relay")
         ELSE
         LET rec2 == [rec1 EXCEPT !.trace = Append(@, "isNodeInSession")] IN
         IF ~isNodeInSession(session, serviceNode[1])
         THEN Throw(c, rec2, "Node is not in the current session", "Relayer.relay")
         ELSE \E entropy \in 0..(EntropyBound - 1) :
              LET relayPayload == RelayPayload(data, "", "", "null")
                  relayMeta == RelayMeta(session)
                  requestHash == RequestHash(relayPayload, relayMeta)
                  proofBytes ==
                      generateProofBytes(entropy,
                          Number(toString(session.header.sessionBlockHeight)),
                          ServicerPubKey(serviceNode[1]), Blockchain,
                          PocketAAT, requestHash)
              IN call' = [call EXCEPT ![c] =
                     [rec2 EXCEPT
                        !.pc = "signing",
                        !.requestHash = requestHash,
                        !.entropy = entropy,
                        !.signed = <<proofBytes>>,
                        !.trace = @ \o <<"generateProofBytes", "hashAAT",
                                         "hashRequest", "sign">>]]

\* Relayer.relay({...}) called directly.
RelayStatic(c) ==
    /\ CanStart(c)
    /\ \E keyManager \in KeyManagers, node \in NodeArgs, data \in DataArgs :
           StaticRelay(c, keyManager, node, data)
    /\ UNCHANGED <<session, thisKeyManager>>

\* relayer.relay({...}), lines 179-195: its own signer check, then the
\* static relay with this.keyManager and this.provider.
RelayInstance(c) ==
    /\ CanStart(c)
    /\ \E node \in NodeArgs, data \in DataArgs :
           IF MissingSigner(thisKeyManager)
           THEN Throw(c, [Idle EXCEPT !.node = node, !.data = data],
                      "You need a signer to send a relay", "relayer.relay")
           ELSE StaticRelay(c, thisKeyManager, node, data)
    /\ UNCHANGED <<session, thisKeyManager>>

\* keyManager.sign resolves: lines 125-153, up to the call of provider.relay.
SignResolves(c) ==
    /\ call[c].pc = "signing"
    /\ LET rec == call[c]
           serviceNode == rec.serviceNode[1]
           signedProofBytes == Sign(rec.keyManager, rec.signed[1])
           relayProof ==
               RelayProof(rec.entropy, session, ServicerPubKey(serviceNode),
                          Blockchain, PocketAAT, signedProofBytes,
                          rec.requestHash)
           relayRequest ==
               RelayRequest(Field(rec.requestHash, "payload"),
                            Field(rec.requestHash, "meta"), relayProof)
       IN call' = [call EXCEPT ![c] =
              [rec EXCEPT
                 !.pc = "sending",
                 !.signedProofBytes = Some(signedProofBytes),
                 !.sent = Append(@, [request |-> relayRequest,
                                     url |-> ServiceUrl(serviceNode)]),
                 !.trace = @ \o <<"hashRequest", "send">>]]
    /\ UNCHANGED <<session, thisKeyManager>>

\* keyManager.sign rejects: the rejection propagates out of relay.
SignRejects(c) ==
    /\ call[c].pc = "signing"
    /\ Throw(c, call[c], "sign rejected", "keyManager.sign")
    /\ UNCHANGED <<session, thisKeyManager>>

\* provider.relay resolves: lines 155-157.
SendResolves(c) ==
    /\ call[c].pc = "sending"
    /\ \E raw \in RawResponses :
         LET relayResponse == validateRelayResponse(raw)
             rec == [call[c] EXCEPT !.trace = Append(@, "validateRelayResponse")]
         IN IF relayResponse.ok
            THEN call' = [call EXCEPT ![c] =
                     [rec EXCEPT !.pc = "done", !.result = relayResponse.value]]
            ELSE Throw(c, rec, relayResponse.value, "validateRelayResponse")
    /\ UNCHANGED <<session, thisKeyManager>>

\* Variant: a rejected send is retried once.
SendRejectsRetry(c) ==
    /\ call[c].pc = "sending"
    /\ IF Len(call[c].sent) < 2
       THEN call' = [call EXCEPT ![c] =
                [@ EXCEPT !.sent = Append(@, call[c].sent[1]),
                          !.trace = Append(@, "send")]]
       ELSE Throw(c, call[c], "send rejected", "provider.relay")
    /\ UNCHANGED <<session, thisKeyManager>>

\* provider.relay rejects: the rejection propagates out of relay.
SendRejects(c) ==
    /\ call[c].pc = "sending"
    /\ Throw(c, call[c], "send rejected", "provider.relay")
    /\ UNCHANGED <<session, thisKeyManager>>

Next ==
    \E c \in Calls :
        \/ RelayStatic(c)
        \/ RelayInstance(c)
        \/ SignResolves(c)
        \/ SignRejects(c)
        \/ SendResolves(c)
        \/ SendRejects(c)

Spec == Init /\ [][Next]_vars

---------------------------------------------------------------------------
(* Properties *)

ErrMissingSigner == "You need a signer to send a relay"
ErrNoServiceNode == "Couldn't find a service node."
ErrNodeNotInSession == "Node is not in the current session"

SessionPublicKeys == {session.nodes[i].publicKey : i \in 1..Len(session.nodes)}
Started == {c \in Calls : call[c].pc # "idle"}
Occurrences(seq, x) == Cardinality({i \in 1..Len(seq) : seq[i] = x})
NoSignNoSend(c) ==
    /\ call[c].signed = <<>>
    /\ call[c].sent = <<>>
    /\ Occurrences(call[c].trace, "sign") = 0
    /\ Occurrences(call[c].trace, "send") = 0

\* C1: a relay call with a signer and a supplied node whose publicKey is the
\* publicKey of no node of session.nodes fails with 'Node is not in the
\* current session', and neither sign nor the provider's relay is invoked.
C1_NodeNotInSession ==
    \A c \in Started :
        (/\ call[c].keyManager # NoKeyManager
         /\ call[c].node # Undefined
         /\ call[c].node[1].publicKey \notin SessionPublicKeys)
        => /\ call[c].pc = "failed"
           /\ call[c].error = ErrNodeNotInSession
           /\ NoSignNoSend(c)

C1_Witness ==
    \E c \in Started :
        /\ call[c].keyManager # NoKeyManager
        /\ call[c].node = Some(NodeX)
        /\ Len(session.nodes) = 3
        /\ call[c].pc = "failed"

\* C2: a relay call without a signer (static without keyManager, instance
\* without this.keyManager) fails with the missing-signer error before any
\* node selection, hashing or send, whatever node and session are.
C2_MissingSigner ==
    \A c \in Started :
        call[c].keyManager = NoKeyManager
        => /\ call[c].pc = "failed"
           /\ call[c].error = ErrMissingSigner
           /\ call[c].trace = <<>>
           /\ call[c].serviceNode = Undefined
           /\ NoSignNoSend(c)

C2_Witness ==
    \E c, d \in Started :
        /\ call[c].thrownBy = "Relayer.relay"
        /\ call[c].error = ErrMissingSigner
        /\ call[c].node = Some(NodeX)
        /\ call[d].thrownBy = "relayer.relay"
        /\ call[d].error = ErrMissingSigner

\* C3: with a signer, no node supplied and an empty session.nodes, relay
\* fails with "Couldn't find a service node." (not with the
\* node-not-in-session error), and neither sign nor send is invoked.
C3_NoServiceNode ==
    \A c \in Started :
        (/\ call[c].keyManager # NoKeyManager
         /\ call[c].node = Undefined
         /\ Len(session.nodes) = 0)
        => /\ call[c].pc = "failed"
           /\ call[c].error = ErrNoServiceNode
           /\ NoSignNoSend(c)

C3_Witness ==
    \E c \in Started :
        /\ call[c].keyManager # NoKeyManager
        /\ call[c].node = Undefined
        /\ Len(session.nodes) = 0
        /\ call[c].thrownBy = "Relayer.relay"

\* C4: in every RelayRequest passed to the provider, proof.request_hash is
\* the hash of the {payload, meta} pair carried in that same request.
C4_RequestHashOfSentPair ==
    \A c \in Started : \A i \in 1..Len(call[c].sent) :
        LET req == call[c].sent[i].request IN
        req.proof.request_hash =
            Sha3(JSONstringify(<<<<"payload", req.payload>>, <<"meta", req.meta>>>>))

C4_Witness ==
    \E c \in Started :
        /\ Len(session.nodes) = 3
        /\ call[c].node = Some(NodeB)
        /\ Len(call[c].sent) = 1
        /\ call[c].pc = "done"

\* C5: in every RelayRequest sent and in every proof digest handed to the
\* signer, servicer_pub_key is the publicKey of a node of session.nodes,
\* for a supplied node and for a randomly chosen one.
C5_ServicerInSession ==
    \A c \in Started :
        /\ \A i \in 1..Len(call[c].sent) :
               call[c].sent[i].request.proof.servicer_pub_key \in SessionPublicKeys
        /\ \A i \in 1..Len(call[c].signed) :
               Field(Preimage(call[c].signed[i]), "servicer_pub_key")
                   \in SessionPublicKeys

C5_Witness ==
    \E c, d \in Started :
        /\ call[c].node = Undefined
        /\ Len(call[c].sent) = 1
        /\ call[c].sent[1].request.proof.servicer_pub_key = "pkC"
        /\ call[d].node = Some(NodeB2)
        /\ Len(call[d].signed) = 1

\* C6: a relay call whose signing succeeded has invoked the provider's send
\* exactly once; no call invokes it more than once, also after a rejected
\* send or a node error; a call that failed before sending never sends; and
\* sign precedes send.
SentBeforeFailure(c) ==
    call[c].thrownBy \in {"provider.relay", "validateRelayResponse"}

C6_ExactlyOneSend ==
    \A c \in Started :
        LET t == call[c].trace IN
        /\ Len(call[c].sent) <= 1
        /\ Occurrences(t, "send") = Len(call[c].sent)
        /\ Occurrences(t, "sign") = Len(call[c].signed)
        /\ Len(call[c].signed) <= 1
        /\ (call[c].signedProofBytes # Undefined) => Len(call[c].sent) = 1
        /\ (call[c].pc \in {"sending", "done"} \/ SentBeforeFailure(c))
               => Len(call[c].sent) = 1
        /\ (call[c].pc = "failed" /\ ~SentBeforeFailure(c)) => call[c].sent = <<>>
        /\ \A i, j \in 1..Len(t) : (t[i] = "sign" /\ t[j] = "send") => i < j

C6_Witness ==
    \E c, d \in Started :
        /\ call[c].thrownBy = "validateRelayResponse"
        /\ Len(call[c].sent) = 1
        /\ call[d].thrownBy = "provider.relay"
        /\ Len(call[d].sent) = 1

\* C7: for a session with N >= 1 nodes the index chosen by
\* getRandomSessionNode is uniform over the N nodes: every node is produced
\* by the same number of the equally likely draws 0..99.
DrawsFor(n) == {r \in RandomDraws : getRandomSessionNode(session, r) = Some(n)}

C7_UniformIndex ==
    \A c \in Started :
        (call[c].node = Undefined /\ call[c].serviceNode # Undefined)
        => \A i, j \in 1..Len(session.nodes) :
               /\ DrawsFor(session.nodes[i]) # {}
               /\ Cardinality(DrawsFor(session.nodes[i]))
                      = Cardinality(DrawsFor(session.nodes[j]))

\* C8: no two relay calls against the session place the same entropy in
\* their proofs, so two relays with identical payload, meta, node,
\* blockchain and AAT never hand the same proof digest to the signer.
C8_FreshEntropy ==
    \A c, d \in Started :
        (c # d /\ call[c].signed # <<>> /\ call[d].signed # <<>>)
        => /\ call[c].entropy # call[d].entropy
           /\ call[c].signed[1] # call[d].signed[1]

\* C9: in every RelayRequest sent, proof.signature is the signer's result
\* for the digest generateProofBytes yields for the values carried in that
\* proof: its entropy, session_block_height, servicer_pub_key, blockchain,
\* the token of the AAT in proof.aat, and its request_hash.
DigestOfProof(p) ==
    Sha3(JSONstringify(
        <<<<"entropy", p.entropy>>,
          <<"session_block_height", p.session_block_height>>,
          <<"servicer_pub_key", p.servicer_pub_key>>,
          <<"blockchain", p.blockchain>>,
          <<"signature", "">>,
          <<"token", Sha3(JSONstringify(<<<<"version", p.aat.version>>,
                                           <<"app_pub_key", p.aat.app_pub_key>>,
                                           <<"client_pub_key", p.aat.client_pub_key>>,
                                           <<"signature", "">>>>))>>,
          <<"request_hash", p.request_hash>>>>))

C9_SignatureOverSentProof ==
    \A c \in Started : \A i \in 1..Len(call[c].sent) :
        LET p == call[c].sent[i].request.proof IN
        /\ p.signature = [signer |-> call[c].keyManager, over |-> DigestOfProof(p)]
        /\ call[c].signed = <<DigestOfProof(p)>>

C9_Witness ==
    \E c \in Started :
        /\ call[c].pc = "sending"
        /\ call[c].sent[1].request.proof.entropy = 1
        /\ call[c].sent[1].request.proof.session_block_height = 12

\* C10: the service URL passed to the provider is the serviceUrl of the
\* entry of session.nodes whose publicKey is the sent servicer_pub_key,
\* also for a supplied node that matches a session node by publicKey only.
C10_UrlOfSessionNode ==
    \A c \in Started : \A i \in 1..Len(call[c].sent) :
        \E k \in 1..Len(session.nodes) :
            /\ session.nodes[k].publicKey
                   = call[c].sent[i].request.proof.servicer_pub_key
            /\ session.nodes[k].serviceUrl = call[c].sent[i].url

====
